---- MODULE Spec2Model ----
(***************************************************************************)
(* Model of comedogenic_tester_gui.py: the ingredient lookup table built   *)
(* at import time and the scoring core (normalize_ingredient,              *)
(* parse_ingredients, rank_weight, concentration_weights, lookup_info,     *)
(* analyze).                                                               *)
(*                                                                         *)
(* Text is a sequence of one-character strings.  A float is a fixed-point  *)
(* integer counting millionths (SCALE); every product and quotient is      *)
(* rounded to the nearest millionth, as a double rounds to its nearest     *)
(* representable value.  Intermediate products are split in limbs so that  *)
(* they stay inside TLC's 32-bit integers.                                 *)
(***************************************************************************)
EXTENDS Integers, Sequences, FiniteSets, TLC

VARIABLES ING_DB, LOOKUP, status, last, ncalls

vars == <<ING_DB, LOOKUP, status, last, ncalls>>

-----------------------------------------------------------------------------
(* Characters and strings                                                  *)

LowerLetters == <<"a","b","c","d","e","f","g","h","i","j","k","l","m",
                  "n","o","p","q","r","s","t","u","v","w","x","y","z">>

UpperLetters == <<"A","B","C","D","E","F","G","H","I","J","K","L","M",
                  "N","O","P","Q","R","S","T","U","V","W","X","Y","Z">>

Digits == {"0","1","2","3","4","5","6","7","8","9"}

Range(s) == {s[i] : i \in 1..Len(s)}

\* str.strip() with no argument strips whitespace.
IsSpace(c) == c \in {" ", "\n", "\t", "\r"}

IsUpper(c) == c \in Range(UpperLetters)

\* the class [a-zA-Z0-9 ] of normalize_ingredient's second pattern
IsAlnumOrSpace(c) ==
    c \in Range(LowerLetters) \cup Range(UpperLetters) \cup Digits \cup {" "}

LowerChar(c) ==
    IF IsUpper(c)
    THEN LowerLetters[CHOOSE i \in 1..Len(UpperLetters) : UpperLetters[i] = c]
    ELSE c

\* str.lower()
Lower(s) == [i \in 1..Len(s) |-> LowerChar(s[i])]

RECURSIVE LStrip(_)
LStrip(s) ==
    IF s # <<>> /\ IsSpace(Head(s)) THEN LStrip(Tail(s)) ELSE s

RECURSIVE RStrip(_)
RStrip(s) ==
    IF s # <<>> /\ IsSpace(s[Len(s)])
    THEN RStrip(SubSeq(s, 1, Len(s) - 1))
    ELSE s

\* str.strip()
Strip(s) == RStrip(LStrip(s))

\* re.sub(r"\([^)]*\)", '', s): every leftmost "(" that has a ")" after it
\* is removed together with everything up to the first such ")".
RECURSIVE StripParens(_)
StripParens(s) ==
    IF s = <<>> THEN <<>>
    ELSE IF Head(s) = "(" /\ \E j \in 2..Len(s) : s[j] = ")"
         THEN LET j == CHOOSE k \in 2..Len(s) :
                            /\ s[k] = ")"
                            /\ \A m \in 2..(k - 1) : s[m] # ")"
              IN  StripParens(SubSeq(s, j + 1, Len(s)))
         ELSE <<Head(s)>> \o StripParens(Tail(s))

\* the run of characters outside [a-zA-Z0-9 ] at the head of s is dropped
RECURSIVE DropRun(_)
DropRun(s) ==
    IF s # <<>> /\ ~IsAlnumOrSpace(Head(s)) THEN DropRun(Tail(s)) ELSE s

\* re.sub(r"[^a-zA-Z0-9 ]+", ' ', s): each maximal run becomes ONE space.
RECURSIVE CollapseRuns(_)
CollapseRuns(s) ==
    IF s = <<>> THEN <<>>
    ELSE IF IsAlnumOrSpace(Head(s))
         THEN <<Head(s)>> \o CollapseRuns(Tail(s))
         ELSE <<" ">> \o CollapseRuns(DropRun(s))

normalize_ingredient(name) == Lower(Strip(CollapseRuns(StripParens(name))))

IsDelimiter(c) == c \in {",", ";", "\n"}

\* re.split(r"[,;\n]", text): the fields between delimiters, empty ones
\* kept.  The text is split in halves; the last field of the left half and
\* the first field of the right half are one field.
RECURSIVE Split(_)
Split(s) ==
    IF Len(s) = 0 THEN << <<>> >>
    ELSE IF Len(s) = 1
         THEN IF IsDelimiter(s[1]) THEN << <<>>, <<>> >> ELSE << s >>
         ELSE LET h == Len(s) \div 2
                  l == Split(SubSeq(s, 1, h))
                  r == Split(SubSeq(s, h + 1, Len(s)))
              IN  SubSeq(l, 1, Len(l) - 1) \o << l[Len(l)] \o r[1] >> \o Tail(r)

NonEmpty(p) == p # <<>>

\* [p.strip() for p in parts if p.strip()]
\* StripAll without the strip(): a fragment is kept as it was split
StripNone(parts) == parts

StripAll(parts) == [i \in 1..Len(parts) |-> Strip(parts[i])]

parse_ingredients(text) == SelectSeq(StripAll(Split(text)), NonEmpty)

\* Python's `k in key` on strings
IsSubstring(k, key) ==
    \E i \in 0..(Len(key) - Len(k)) : SubSeq(key, i + 1, i + Len(k)) = k

-----------------------------------------------------------------------------
(* Fixed-point arithmetic standing for the program's floats                *)

SCALE == 1000 * 1000

LIMB == 10 * 10 * 10

Abs(x) == IF x < 0 THEN -x ELSE x

Sign(x) == IF x < 0 THEN -1 ELSE 1

\* a * b (both >= 0), rounded to the nearest millionth.  With a = ah*LIMB+al
\* and b = bh*LIMB+bl the product is ah*bh*SCALE + (ah*bl+al*bh)*LIMB + al*bl.
MulNat(a, b) ==
    LET ah == a \div LIMB
        al == a % LIMB
        bh == b \div LIMB
        bl == b % LIMB
        mid == ah * bl + al * bh
        low == al * bl + SCALE \div 2
    IN  ah * bh + (mid + low \div LIMB) \div LIMB

\* float multiplication
Mul(a, b) == Sign(a) * Sign(b) * MulNat(Abs(a), Abs(b))

\* the decimal digits of (rem / d) after `digits` more places, as
\* <<quotient, remainder>>: long division, one digit at a time
RECURSIVE LongDiv(_, _, _, _)
LongDiv(q, rem, d, digits) ==
    IF digits = 0 THEN <<q, rem>>
    ELSE LongDiv(q * 10 + (rem * 10) \div d, (rem * 10) % d, d, digits - 1)

\* float division a / d for 0 <= a <= d, d > 0, rounded to the nearest
\* millionth
Div(a, d) ==
    LET whole == a \div d
        qr == LongDiv(whole, a % d, d, 6)
    IN  IF 2 * qr[2] >= d THEN qr[1] + 1 ELSE qr[1]

\* x ** k for a natural k, by repeated squaring
RECURSIVE PowNat(_, _)
PowNat(x, k) ==
    IF k = 0 THEN SCALE
    ELSE LET half == PowNat(x, k \div 2)
             sq == Mul(half, half)
         IN  IF k % 2 = 1 THEN Mul(sq, x) ELSE sq

\* the largest r = base + j * step, j in 0..9, with r ** k <= target
NextDigit(base, step, k, target) ==
    LET fits == {j \in 0..9 : PowNat(base + j * step, k) <= target}
    IN  base + step * (CHOOSE j \in fits : \A m \in fits : m <= j)

\* target ** (1 / k) for 0 < target < 1: the largest r below 1 with
\* r ** k <= target, one decimal digit after the other
RECURSIVE RootDigits(_, _, _, _)
RootDigits(base, step, k, target) ==
    IF step = 0 THEN base
    ELSE RootDigits(NextDigit(base, step, k, target), step \div 10, k, target)

Root(k, target) == RootDigits(0, SCALE \div 10, k, target)

\* round(x, ndigits) of Python 3: to the nearest multiple of `unit`, a tie
\* to the even multiple; the result is kept in millionths.
RoundTo(x, unit) ==
    LET a == Abs(x)
        q == a \div unit
        r == a % unit
        up == 2 * r > unit \/ (2 * r = unit /\ q % 2 = 1)
    IN  Sign(x) * unit * (IF up THEN q + 1 ELSE q)

Min(a, b) == IF b < a THEN b ELSE a

Max(a, b) == IF b > a THEN b ELSE a

\* s[lo] + ... + s[hi]
RECURSIVE SumRange(_, _, _)
SumRange(s, lo, hi) ==
    IF lo > hi THEN 0
    ELSE IF lo = hi THEN s[lo]
    ELSE LET mid == (lo + hi) \div 2
         IN  SumRange(s, lo, mid) + SumRange(s, mid + 1, hi)

\* sum(s)
SumSeq(s) == SumRange(s, 1, Len(s))

-----------------------------------------------------------------------------
(* Concentration weighting                                                 *)

\* the base 0.08 of rank_weight, in millionths
DECAY == 8 * (SCALE \div 100)

\* 0.08 ** (1 / (total - 1)), the ratio of two neighbouring raw weights
RankBase(total) == IF total <= 1 THEN SCALE ELSE Root(total - 1, DECAY)

\* RankPower with the positions counted from the end of the list
RankPowerRising(base, index, total) ==
    IF total <= 1 THEN SCALE ELSE PowNat(base, total - 1 - index)

\* 0.08 ** (index / (total - 1)) as (0.08 ** (1 / (total - 1))) ** index
RankPower(base, index, total) ==
    IF total <= 1 THEN SCALE ELSE PowNat(base, index)

rank_weight(index, total) == RankPower(RankBase(total), index, total)

\* a list held as a tuple, each element computed once
List(f) == f \o <<>>

\* [r / s for r in raw]
DivideAll(raw, s) == List([i \in 1..Len(raw) |-> Div(raw[i], s)])

\* Normalize without the division by the sum
NotNormalized(raw) == raw

Normalize(raw) == DivideAll(raw, SumSeq(raw))

\* [rank_weight(i, n) for i in range(n)]; the ratio is computed once
RawWeights(n, base) == List([i \in 1..n |-> RankPower(base, i - 1, n)])

concentration_weights(n) == Normalize(RawWeights(n, RankBase(n)))

-----------------------------------------------------------------------------
(* The ingredient table                                                    *)

\* A cell of the data frame: a string, a number, or the NaN pandas gives for
\* an empty cell.
StrCell(v) == [t |-> "str", s |-> v, n |-> 0]

NumCell(v) == [t |-> "num", s |-> <<>>, n |-> v]

NaNCell == [t |-> "nan", s |-> <<>>, n |-> 0]

Row(name, score, category, notes) ==
    [name |-> name, score |-> score, category |-> category, notes |-> notes]

\* the position of key in the table, 0 when it has none (`key in LOOKUP`)
KeyIndex(table, key) ==
    IF \E i \in 1..Len(table) : table[i].key = key
    THEN CHOOSE i \in 1..Len(table) : table[i].key = key
    ELSE 0

\* LOOKUP[key] = row: a dict keeps the position of a key it already holds
\* and replaces its value
Insert(table, key, row) ==
    LET i == KeyIndex(table, key)
    IN  IF i = 0 THEN Append(table, [key |-> key, row |-> row])
        ELSE [table EXCEPT ![i] = [key |-> key, row |-> row]]

\* {row['name'].strip().lower(): row for _, row in ING_DB.iterrows()}:
\* a name that is no string has no strip() and ends the comprehension with
\* an AttributeError.
RECURSIVE BuildLookup(_, _)
BuildLookup(rows, table) ==
    IF rows = <<>> THEN [exc |-> "", table |-> table]
    ELSE IF Head(rows).name.t # "str"
         THEN [exc |-> "AttributeError", table |-> <<>>]
         ELSE BuildLookup(Tail(rows),
                          Insert(table, Lower(Strip(Head(rows).name.s)),
                                 Head(rows)))

\* the dict lookup_info returns for a row; float(row['score']) raises a
\* ValueError on a string that is no number
RowInfo(row) ==
    IF row.score.t = "str" THEN [exc |-> "ValueError"]
    ELSE [exc |-> "", name |-> row.name.s, score |-> row.score.n,
          notes |-> row.notes, category |-> row.category]

UnknownInfo(name) ==
    [exc |-> "", name |-> name, score |-> 0,
     notes |-> "Unknown (assumed low)", category |-> "unknown"]

\* LookupKey with the partial scan tried before the exact match
LookupKeyPartialFirst(name, key, table) ==
    LET hit == KeyIndex(table, key)
        partial == {i \in 1..Len(table) : IsSubstring(table[i].key, key)}
    IN  IF partial # {}
        THEN RowInfo(table[CHOOSE i \in partial :
                              \A j \in partial : i <= j].row)
        ELSE IF hit # 0 THEN RowInfo(table[hit].row)
             ELSE UnknownInfo(name)

\* lookup_info once the key is normalized
LookupKey(name, key, table) ==
    LET hit == KeyIndex(table, key)
        partial == {i \in 1..Len(table) : IsSubstring(table[i].key, key)}
    IN  IF hit # 0 THEN RowInfo(table[hit].row)
        ELSE IF partial # {}
             THEN RowInfo(table[CHOOSE i \in partial :
                                   \A j \in partial : i <= j].row)
             ELSE UnknownInfo(name)

lookup_info(name, table) ==
    LookupKey(name, normalize_ingredient(name), table)

-----------------------------------------------------------------------------
(* analyze                                                                 *)

CENT == SCALE \div 100

LEAVE_ON_FACTOR == 115 * CENT

ANHYDROUS_FACTOR == 110 * CENT

WO_FACTOR == 108 * CENT

OCCLUSIVE_FACTOR == 112 * CENT

HIGH_BASE == 4 * SCALE

MAX_SCORE == 5 * SCALE

ANHYDROUS_TAGS ==
    { <<"a","n","h","y","d","r","o","u","s">>,
      <<"o","i","l"," ","o","n","l","y">> }

WO_TAGS ==
    { <<"w","/","o">>,
      <<"w","a","t","e","r","-","i","n","-","o","i","l">> }

OCCLUSIVE_CATEGORIES == {"occlusive", "butter", "wax"}

\* the if/elif chain of analyze on the clamped score
Classify(score) ==
    IF score < 50 * CENT THEN "Very Low"
    ELSE IF score < 150 * CENT THEN "Low"
    ELSE IF score < 250 * CENT THEN "Moderate"
    ELSE IF score < 350 * CENT THEN "High"
    ELSE "Very High"

\* Modifier with the occlusive rule firing from one occlusive on
ModifierSingleOcclusive(leave_on, formulation, occlusive_count) ==
    LET m1 == IF leave_on THEN Mul(SCALE, LEAVE_ON_FACTOR) ELSE SCALE
        m2 == IF Lower(formulation) \in ANHYDROUS_TAGS
              THEN Mul(m1, ANHYDROUS_FACTOR) ELSE m1
        m3 == IF Lower(formulation) \in WO_TAGS
              THEN Mul(m2, WO_FACTOR) ELSE m2
        m4 == IF occlusive_count >= 1
              THEN Mul(m3, OCCLUSIVE_FACTOR) ELSE m3
        n1 == IF leave_on THEN <<"Leave-on -> +15%">> ELSE <<>>
        n2 == IF Lower(formulation) \in ANHYDROUS_TAGS
              THEN Append(n1, "Anhydrous -> +10%") ELSE n1
        n3 == IF Lower(formulation) \in WO_TAGS
              THEN Append(n2, "W/O emulsion -> +8%") ELSE n2
        n4 == IF occlusive_count >= 1
              THEN Append(n3, "Multiple occlusives -> +12%") ELSE n3
    IN  [modifier |-> m4, notes |-> n4]

\* the modifier and notes after the four rules, in the order of the code
Modifier(leave_on, formulation, occlusive_count) ==
    LET m1 == IF leave_on THEN Mul(SCALE, LEAVE_ON_FACTOR) ELSE SCALE
        m2 == IF Lower(formulation) \in ANHYDROUS_TAGS
              THEN Mul(m1, ANHYDROUS_FACTOR) ELSE m1
        m3 == IF Lower(formulation) \in WO_TAGS
              THEN Mul(m2, WO_FACTOR) ELSE m2
        m4 == IF occlusive_count >= 2
              THEN Mul(m3, OCCLUSIVE_FACTOR) ELSE m3
        n1 == IF leave_on THEN <<"Leave-on -> +15%">> ELSE <<>>
        n2 == IF Lower(formulation) \in ANHYDROUS_TAGS
              THEN Append(n1, "Anhydrous -> +10%") ELSE n1
        n3 == IF Lower(formulation) \in WO_TAGS
              THEN Append(n2, "W/O emulsion -> +8%") ELSE n2
        n4 == IF occlusive_count >= 2
              THEN Append(n3, "Multiple occlusives -> +12%") ELSE n3
    IN  [modifier |-> m4, notes |-> n4]

\* Clamp without the upper limit
ClampFromBelowOnly(score) == Max(0, score)

\* score = max(0.0, min(5.0, score))
Clamp(score) == Max(0, Min(MAX_SCORE, score))

IsOcclusive(info) ==
    info.category \in OCCLUSIVE_CATEGORIES \/ info.score >= HIGH_BASE

IsHighBase(info) == info.score >= HIGH_BASE

\* the names appended to high_risk, in input order
HighRisk(infos) ==
    LET high == SelectSeq(infos, IsHighBase)
    IN  [i \in 1..Len(high) |-> high[i].name]

\* the rows of breakdown
Breakdown(infos, weights, contrib) ==
    List([i \in 1..Len(infos) |->
            <<infos[i].name, infos[i].score,
              RoundTo(weights[i], SCALE \div 10000),
              RoundTo(contrib[i], SCALE \div 10000),
              infos[i].notes>>])

OcclusiveCount(infos) ==
    Cardinality({i \in 1..Len(infos) : IsOcclusive(infos[i])})

\* lines 97-109: the score, its band and the returned dict
Result(infos, breakdown, baseline, mod) ==
    LET score == Clamp(Mul(baseline, mod.modifier))
    IN  [kind |-> "result",
         score |-> RoundTo(score, SCALE \div 100),
         category |-> Classify(score),
         baseline |-> RoundTo(baseline, SCALE \div 1000),
         modifier |-> RoundTo(mod.modifier, SCALE \div 1000),
         notes |-> mod.notes,
         breakdown |-> breakdown,
         high_risk |-> HighRisk(infos)]

\* lines 71-82 once every lookup has returned
Accumulate(infos, weights, contrib, leave_on, formulation) ==
    Result(infos, Breakdown(infos, weights, contrib), SumSeq(contrib),
           Modifier(leave_on, formulation, OcclusiveCount(infos)))

\* the loop of analyze: the first lookup that raises ends the call
Loop(infos, weights, leave_on, formulation) ==
    LET raising == {i \in 1..Len(infos) : infos[i].exc # ""}
    IN  IF raising # {}
        THEN [kind |-> "raise",
              exc |-> infos[CHOOSE i \in raising :
                               \A j \in raising : i <= j].exc]
        ELSE Accumulate(infos, weights,
                        List([i \in 1..Len(infos) |->
                                Mul(infos[i].score, weights[i])]),
                        leave_on, formulation)

AnalyzeList(ingredients, leave_on, formulation, table) ==
    IF ingredients = <<>> THEN [kind |-> "None"]
    ELSE Loop(List([i \in 1..Len(ingredients) |->
                      lookup_info(ingredients[i], table)]),
              concentration_weights(Len(ingredients)),
              leave_on, formulation)

\* analyze(ing_text, leave_on, formulation) against the table: None for no
\* ingredient, the exception of the first lookup that raises, or the result.
analyze(ing_text, leave_on, formulation, table) ==
    AnalyzeList(parse_ingredients(ing_text), leave_on, formulation, table)

-----------------------------------------------------------------------------
(* Bounds and input sets                                                   *)

\* rows of a data frame
MaxRows == 3

\* ingredients of a pasted list built from whole ingredient names
MaxTokens == 3

\* characters of a pasted text built character by character
MaxLen == 3

\* ingredients of the one long pasted list
LongList == 79

\* calls of one session when calls follow one another
MaxCalls == 3

SeqsUpTo(S, n) == UNION {[1..k -> S] : k \in 0..n}

RECURSIVE Join(_, _)
Join(parts, sep) ==
    IF parts = <<>> THEN <<>>
    ELSE IF Len(parts) = 1 THEN parts[1]
    ELSE parts[1] \o sep \o Join(Tail(parts), sep)

Repeat(s, k) == [i \in 1..(k * Len(s)) |-> s[((i - 1) % Len(s)) + 1]]

Hot == <<"h","o","t">>
Wax == <<"W","a","x">>
Oil == <<"o","i","l">>
Neg == <<"n","e","g">>
Unlisted == <<"z","z">>

\* A well-formed data frame: names are strings, scores are numbers, some
\* of them outside the conventional 0..5.
ScoreDB ==
    << Row(StrCell(Hot), NumCell(7 * SCALE), "occlusive", "off the scale"),
       Row(StrCell(Wax), NumCell(5 * SCALE), "wax", "beeswax"),
       Row(StrCell(Oil), NumCell(3 * SCALE), "emollient", "oil"),
       Row(StrCell(Neg), NumCell(-1 * SCALE), "butter", "below zero") >>

\* the file is unreadable (the empty frame) or holds ScoreDB
ScoreDBs == {<<>>, ScoreDB}

ScoreTokens == {Hot, Lower(Wax), Oil, Neg, Unlisted}

\* lists of whole names, the pasted texts of every length up to MaxLen over
\* a few characters, and one long list
ListTexts == {Join(ts, <<",">>) : ts \in SeqsUpTo(ScoreTokens, MaxTokens)}

RawTexts == SeqsUpTo({"a", " ", ",", ";", "\n", "-"}, MaxLen)

LongTexts == {Repeat(<<"z", ",">>, LongList)}

Formulations ==
    { <<"o","/","w">>,
      <<"W","/","O">>,
      <<"w","a","t","e","r","-","i","n","-","o","i","l">>,
      <<"A","n","h","y","d","r","o","u","s">>,
      <<"o","i","l"," ","o","n","l","y">> }

\* Frames whose names need normalizing, repeat a key, or are blank
LookupRows ==
    { Row(StrCell(<<"x">>), NumCell(1 * SCALE), "oil", "n1"),
      Row(StrCell(<<"a","x">>), NumCell(2 * SCALE), "wax", "n2"),
      Row(StrCell(<<"A","x">>), NumCell(4 * SCALE), "butter", "n3"),
      Row(StrCell(<<"x"," ","(","c",")">>), NumCell(3 * SCALE), "oil", "n4"),
      Row(StrCell(<<" ">>), NumCell(5 * SCALE), "wax", "n5") }

LookupDBs == SeqsUpTo(LookupRows, MaxRows)

Queries ==
    {r.name.s : r \in LookupRows}
        \cup { <<"A","X">>, <<"b"," ","a","x">>, <<"a","-","x">>,
               <<"z","z">>, <<"(","b",")">> }

\* Frames with an empty name cell or a score that is no number
MalformedRows ==
    { Row(StrCell(Oil), NumCell(3 * SCALE), "emollient", "oil"),
      Row(NaNCell, NumCell(2 * SCALE), "wax", "no name"),
      Row(StrCell(Wax), StrCell(<<"n","/","a">>), "wax", "no score") }

MalformedDBs == SeqsUpTo(MalformedRows, MaxRows)

SessionTexts ==
    { Oil, Lower(Wax) \o <<",">> \o Unlisted, <<" ", ",">>,
      Hot \o <<";">> \o Lower(Wax) \o <<"\n">> \o Neg }

SessionFormulations == { <<"w","/","o">>, <<"o","/","w">> }

SessionNames == {Oil, Wax, Unlisted}

-----------------------------------------------------------------------------
(* The program                                                             *)

NoCall == [op |-> "none"]

\* After ING_DB is read (an unreadable file gives the empty frame), before
\* LOOKUP is built.
InitWith(frames) ==
    /\ ING_DB \in frames
    /\ LOOKUP = <<>>
    /\ status = "import"
    /\ last = NoCall
    /\ ncalls = 0

\* line 24: LOOKUP is built; an exception ends the import and the program
LoadLookup ==
    /\ status = "import"
    /\ LET built == BuildLookup(ING_DB, <<>>)
       IN  /\ LOOKUP' = built.table
           /\ status' = IF built.exc = "" THEN "ready" ELSE built.exc
    /\ UNCHANGED <<ING_DB, last, ncalls>>

\* one call of analyze
AnalyzeCall(text, leave_on, formulation) ==
    /\ status = "ready"
    /\ last' = [op |-> "analyze", text |-> text, leave_on |-> leave_on,
                formulation |-> formulation,
                res |-> analyze(text, leave_on, formulation, LOOKUP)]
    /\ ncalls' = ncalls + 1
    /\ UNCHANGED <<ING_DB, LOOKUP, status>>

\* LookupCall that remembers an unlisted name in the table
LookupCallCaching(name) ==
    /\ status = "ready"
    /\ last' = [op |-> "lookup_info", name |-> name,
                res |-> lookup_info(name, LOOKUP)]
    /\ ncalls' = ncalls + 1
    /\ LOOKUP' = IF last'.res.category = "unknown"
                 THEN Insert(LOOKUP, normalize_ingredient(name),
                             Row(StrCell(name), NumCell(0), "unknown",
                                 "Unknown (assumed low)"))
                 ELSE LOOKUP
    /\ UNCHANGED <<ING_DB, status>>

\* one call of lookup_info
LookupCall(name) ==
    /\ status = "ready"
    /\ last' = [op |-> "lookup_info", name |-> name,
                res |-> lookup_info(name, LOOKUP)]
    /\ ncalls' = ncalls + 1
    /\ UNCHANGED <<ING_DB, LOOKUP, status>>

\* Spec: the first analysis of a pasted text, over a well-formed frame.
Init == InitWith(ScoreDBs)

FirstAnalyze ==
    /\ ncalls = 0
    /\ \E text \in ListTexts \cup RawTexts \cup LongTexts,
          leave_on \in BOOLEAN, formulation \in Formulations :
            AnalyzeCall(text, leave_on, formulation)

Next == LoadLookup \/ FirstAnalyze

Spec == Init /\ [][Next]_vars

\* SpecLookup: the first resolution of a name, over frames whose names need
\* normalizing.
InitLookup == InitWith(LookupDBs)

FirstLookup ==
    /\ ncalls = 0
    /\ \E name \in Queries : LookupCall(name)

NextLookup == LoadLookup \/ FirstLookup

SpecLookup == InitLookup /\ [][NextLookup]_vars

\* SpecMalformed: start-up and the first call over frames with malformed
\* rows.
InitMalformed == InitWith(MalformedDBs)

FirstCall ==
    /\ ncalls = 0
    /\ \/ \E name \in SessionNames : LookupCall(name)
       \/ \E text \in SessionTexts, leave_on \in BOOLEAN,
             formulation \in SessionFormulations :
               AnalyzeCall(text, leave_on, formulation)

NextMalformed == LoadLookup \/ FirstCall

SpecMalformed == InitMalformed /\ [][NextMalformed]_vars

\* SpecSession: calls of analyze and lookup_info following one another in
\* any order.
InitSession == InitWith(ScoreDBs)

AnyCall ==
    /\ ncalls < MaxCalls
    /\ \/ \E name \in SessionNames : LookupCall(name)
       \/ \E text \in SessionTexts, leave_on \in BOOLEAN,
             formulation \in SessionFormulations :
               AnalyzeCall(text, leave_on, formulation)

NextSession == LoadLookup \/ AnyCall

SpecSession == InitSession /\ [][NextSession]_vars

-----------------------------------------------------------------------------
(* Properties                                                              *)

IsResult == last.op = "analyze" /\ last.res.kind = "result"

\* C1: whenever analyze returns a result, its score lies in 0.0 .. 5.0,
\* also when the table holds scores below 0 or above 5.
ScoreWithinBounds ==
    IsResult => (0 <= last.res.score /\ last.res.score <= 5 * SCALE)

\* a result whose baseline is above 5.0 and whose score is 5.0
ScoreClampedFromAbove ==
    /\ IsResult
    /\ last.res.baseline > 5 * SCALE
    /\ last.res.score = 5 * SCALE

Bands ==
    { [lo |-> 0,               hi |-> SCALE \div 2,       band |-> "Very Low"],
      [lo |-> SCALE \div 2,     hi |-> 3 * (SCALE \div 2), band |-> "Low"],
      [lo |-> 3 * (SCALE \div 2), hi |-> 5 * (SCALE \div 2), band |-> "Moderate"],
      [lo |-> 5 * (SCALE \div 2), hi |-> 7 * (SCALE \div 2), band |-> "High"],
      [lo |-> 7 * (SCALE \div 2), hi |-> 5 * SCALE + 1,    band |-> "Very High"] }

\* C2: in every result the returned category is the band whose half-open
\* interval holds the returned score: [0,0.5) Very Low, [0.5,1.5) Low,
\* [1.5,2.5) Moderate, [2.5,3.5) High, [3.5,5] Very High.
CategoryIsBandOfReturnedScore ==
    IsResult =>
        \E b \in Bands : /\ b.lo <= last.res.score
                         /\ last.res.score < b.hi
                         /\ last.res.category = b.band

\* C3: LOOKUP is keyed by normalized names, so every row of the frame has
\* the key normalize_ingredient(name), and looking a row's own name up
\* returns the entry under that key.
OwnNameFoundByNormalizedKey ==
    status = "ready" =>
        /\ \A i \in 1..Len(ING_DB) :
              KeyIndex(LOOKUP, normalize_ingredient(ING_DB[i].name.s)) # 0
        /\ (/\ last.op = "lookup_info"
            /\ \E i \in 1..Len(ING_DB) : ING_DB[i].name.s = last.name)
           => LET hit == KeyIndex(LOOKUP, normalize_ingredient(last.name))
              IN  hit # 0 /\ last.res = RowInfo(LOOKUP[hit].row)

\* C4: a row with no name or with a score that is no number is skipped:
\* LOOKUP is built, it holds no such row, and no later call of lookup_info
\* or analyze raises.
MalformedRowsSkipped ==
    status # "import" =>
        /\ status = "ready"
        /\ \A i \in 1..Len(LOOKUP) : /\ LOOKUP[i].row.name.t = "str"
                                     /\ LOOKUP[i].row.score.t = "num"
        /\ last.op = "lookup_info" => last.res.exc = ""
        /\ last.op = "analyze" => last.res.kind # "raise"

ExactKeys(key) == {i \in 1..Len(LOOKUP) : LOOKUP[i].key = key}

PartialKeys(key) ==
    {i \in 1..Len(LOOKUP) :
        \E a \in 0..(Len(key) - Len(LOOKUP[i].key)) :
            SubSeq(key, a + 1, a + Len(LOOKUP[i].key)) = LOOKUP[i].key}

EntryOf(i) ==
    [exc |-> "", name |-> LOOKUP[i].row.name.s,
     score |-> LOOKUP[i].row.score.n, notes |-> LOOKUP[i].row.notes,
     category |-> LOOKUP[i].row.category]

\* C5: lookup_info answers by three tiers in strict precedence: the entry
\* under the key equal to the normalized query, even when other keys are
\* substrings of it; else the first entry in table order whose key is a
\* substring of the normalized query; else the synthetic entry with the
\* query as it was typed, score 0.0, category unknown and the notes
\* "Unknown (assumed low)".
ThreeTierPrecedence ==
    last.op = "lookup_info" =>
        LET key == normalize_ingredient(last.name)
            exact == ExactKeys(key)
            partial == PartialKeys(key)
        IN  /\ exact # {} => \E i \in exact : last.res = EntryOf(i)
            /\ (exact = {} /\ partial # {}) =>
                  \E i \in partial : /\ \A j \in partial : i <= j
                                     /\ last.res = EntryOf(i)
            /\ (exact = {} /\ partial = {}) =>
                  last.res = [exc |-> "", name |-> last.name, score |-> 0,
                              notes |-> "Unknown (assumed low)",
                              category |-> "unknown"]

\* an exact hit that comes after a different key that is a substring of
\* the query
ExactBeatsEarlierPartial ==
    /\ last.op = "lookup_info"
    /\ LET key == normalize_ingredient(last.name)
       IN  \E i \in ExactKeys(key) : \E j \in PartialKeys(key) :
              /\ j < i
              /\ EntryOf(j) # EntryOf(i)
              /\ last.res = EntryOf(i)

\* the four rules in their order: whether each fires for the last call,
\* its factor in hundredths, its note
Rules ==
    LET tokens == parse_ingredients(last.text)
        occlusive ==
            {i \in 1..Len(tokens) :
                LET info == lookup_info(tokens[i], LOOKUP)
                IN  \/ info.category \in {"occlusive", "butter", "wax"}
                    \/ info.score >= 4 * SCALE}
        tag == Lower(last.formulation)
    IN  << [fires |-> last.leave_on, pct |-> 115,
            note |-> "Leave-on -> +15%"],
           [fires |-> tag \in ANHYDROUS_TAGS, pct |-> 110,
            note |-> "Anhydrous -> +10%"],
           [fires |-> tag \in WO_TAGS, pct |-> 108,
            note |-> "W/O emulsion -> +8%"],
           [fires |-> Cardinality(occlusive) >= 2, pct |-> 112,
            note |-> "Multiple occlusives -> +12%"] >>

Fires(rule) == rule.fires

FiringNotes(rules) ==
    LET firing == SelectSeq(rules, Fires)
    IN  [i \in 1..Len(firing) |-> firing[i].note]

Factor(rule) == IF rule.fires THEN rule.pct ELSE 100

\* the product of the factors of the firing rules, in millionths; at most
\* three rules fire, so the division is exact
FactorProduct(rules) ==
    (Factor(rules[1]) * Factor(rules[2]) * Factor(rules[3])
        * Factor(rules[4])) \div 100

NoneIffNoIngredient ==
    last.op = "analyze" =>
        /\ last.res.kind \in {"None", "result"}
        /\ last.res.kind = "None" <=>
              \A i \in 1..Len(last.text) :
                  last.text[i] \in {",", ";", "\n", " ", "\t", "\r"}

\* None for a text of delimiters and white space with leave_on set
NoneForDelimitersAndSpaces ==
    /\ last.op = "analyze"
    /\ last.res.kind = "None"
    /\ last.leave_on
    /\ \E i, j \in 1..Len(last.text) :
          last.text[i] = " " /\ last.text[j] \in {",", ";", "\n"}

\* row i of breakdown is the entry of the i-th token
RowsFollowTokens ==
    LET tokens == parse_ingredients(last.text)
        rows == last.res.breakdown
    IN  /\ Len(rows) = Len(tokens)
        /\ \A i \in 1..Len(tokens) :
              LET info == lookup_info(tokens[i], LOOKUP)
              IN  /\ rows[i][1] = info.name
                  /\ rows[i][2] = info.score
                  /\ rows[i][5] = info.notes

\* C8 as stated: breakdown has one row per token in input order and the
\* weights reported in it strictly decrease with position.
ReportedWeightsStrictlyDecrease ==
    IsResult =>
        /\ RowsFollowTokens
        /\ \A i \in 1..(Len(last.res.breakdown) - 1) :
              last.res.breakdown[i][3] > last.res.breakdown[i + 1][3]

\* C8: breakdown has one row per token in input order; the weights
\* reported in it are the weights rounded to four decimals and never
\* increase with position, and the weights before rounding strictly
\* decrease.
ReportedWeightsNeverIncrease ==
    IsResult =>
        LET rows == last.res.breakdown
            w == concentration_weights(Len(rows))
        IN  /\ RowsFollowTokens
            /\ \A i \in 1..Len(rows) :
                  rows[i][3] = RoundTo(w[i], SCALE \div 10000)
            /\ \A i \in 1..(Len(rows) - 1) :
                  rows[i][3] >= rows[i + 1][3] /\ w[i] > w[i + 1]

\* a long list in which two neighbouring rows report the same weight
NeighboursReportSameWeight ==
    /\ IsResult
    /\ Len(last.res.breakdown) = LongList
    /\ \E i \in 1..(LongList - 1) :
          last.res.breakdown[i][3] = last.res.breakdown[i + 1][3]

FreshResult(call, frame) ==
    LET table == BuildLookup(frame, <<>>).table
    IN  IF call.op = "analyze"
        THEN analyze(call.text, call.leave_on, call.formulation, table)
        ELSE lookup_info(call.name, table)

\* C10: once LOOKUP is built, every call of analyze or lookup_info leaves
\* the frame and LOOKUP as they were, and returns what its arguments and
\* the table determine, whatever calls ran before it.
CallsLeaveTableAlone ==
    [][ncalls' # ncalls =>
           /\ LOOKUP' = LOOKUP
           /\ ING_DB' = ING_DB
           /\ status' = status
           /\ last'.res = FreshResult(last', ING_DB')]_vars

\* a lookup of an unlisted name that follows two other calls
UnlistedAfterOtherCalls ==
    /\ ncalls = MaxCalls
    /\ last.op = "lookup_info"
    /\ last.res.category = "unknown"

====
